---------------------------- MODULE Spec2Model ----------------------------
(***************************************************************************)
(* A model of btc-alpha-stack's connection bootstrap (shared/chains.py),  *)
(* of its retry helper and unit conversions (utils.py) and of the loading  *)
(* of its configuration (config.py).                                       *)
(*                                                                         *)
(* Specifications share the module.  RetrySpec runs one call of            *)
(* retry_with_backoff against a callable whose every invocation may        *)
(* return, raise an Exception or raise a BaseException that is no          *)
(* Exception.  BootSpec runs the import of shared.chains, which builds     *)
(* ALL_CHAINS, against every environment and every set of reachable        *)
(* endpoints.  ConfSpec runs the import of config in every environment,   *)
(* ConvSpec a call of wei_to_ether followed by ether_to_wei.  Each         *)
(* specification leaves the other parts' variables at their idle values.   *)
(***************************************************************************)
EXTENDS Integers, Sequences, FiniteSets

VARIABLES
    \* ---- utils.retry_with_backoff -------------------------------------
    retries,        \* argument `retries`
    delay,          \* argument `delay` (seconds, as a whole number of ticks)
    rpc,            \* position in retry_with_backoff: "loop", "except", "done"
    attempt,        \* the loop variable of `for attempt in range(retries)`
    current_delay,  \* local `current_delay`
    trace,          \* what the call did so far: invocations of func and sleeps
    outcome,        \* how the call ended: nothing yet, a return, a raise
    \* ---- shared.chains (the import of the module) ----------------------
    environ,        \* os.environ restricted to the five RPC variables
    reachable,      \* the URLs whose endpoint answers isConnected() with True
    bpc,            \* position: "connect", "check", "failed", "ready", "idle"
    idx,            \* position in chain_envs of the entry being connected
    w3,             \* local `w3` of _connect: the client just opened
    connections,    \* local `connections` of _initialize_connections
    ALL_CHAINS,     \* the module global: bound or not, and the list it holds
    raised,         \* the exception that ended the import, if any
    events,         \* log records and client operations, in program order
    \* ---- config (the import of the module) -----------------------------
    osenv,          \* os.environ, after load_dotenv(), for the names config reads
    cpc,            \* the statement of config.py to run next, or how it ended
    MODE,           \* the module global MODE
    loaded,         \* the other module globals bound so far
    cerr,           \* the exception that ended the import, if any
    \* ---- utils.wei_to_ether, utils.ether_to_wei ------------------------
    wei,            \* the integer given to wei_to_ether, as decimal digits
    ether,          \* what wei_to_ether returned, or the argument of ether_to_wei
    back,           \* what ether_to_wei returned
    vpc,            \* the call to make next: "to_ether", "to_wei", or the end
    verr            \* the exception a conversion re-raised, if any

retryVars == <<retries, delay, rpc, attempt, current_delay, trace, outcome>>
bootVars  == <<environ, reachable, bpc, idx, w3, connections, ALL_CHAINS,
               raised, events>>

confVars  == <<osenv, cpc, MODE, loaded, cerr>>

convVars  == <<wei, ether, back, vpc, verr>>

vars == <<retryVars, bootVars, confVars, convVars>>

\* What each part leaves alone.
retryFrame == <<bootVars, confVars, convVars>>
bootFrame  == <<retryVars, confVars, convVars>>
confFrame  == <<retryVars, bootVars, convVars>>
convFrame  == <<retryVars, bootVars, confVars>>

---------------------------------------------------------------------------
\* Bounds of the exploration.
MaxRetries == 3     \* retries ranges over 0..MaxRetries
MaxDelay   == 2     \* delay ranges over 0..MaxDelay
NumValues  == 2     \* func returns one of the values 1..NumValues
NumErrors  == 2     \* func raises one of the Exceptions 1..NumErrors

\* More events than any call of the code produces (at most 2*retries + 1):
\* the guard on it only keeps a loop that fails to advance finite.
MaxTrace == 2 * MaxRetries + 4

MaxShift == 20      \* amounts a * 10^j + b with j in 1..MaxShift
MaxDigit == 2       \* and a, b digits up to MaxDigit

Values == 1..NumValues
Errors == 1..NumErrors

\* What one invocation of func can do: return a value, raise an Exception
\* (caught by `except Exception`), or raise a BaseException that is not an
\* Exception (KeyboardInterrupt, SystemExit), which the handler does not catch.
FuncResults ==
    [res : {"ok"}, val : Values] \cup [res : {"err"}, val : Errors]
        \cup [res : {"abort"}, val : {0}]

CallEvent(r)  == [kind |-> "call", res |-> r.res, val |-> r.val]
SleepEvent(d) == [kind |-> "sleep", res |-> "none", val |-> d]

NoOutcome == [kind |-> "none", res |-> "none", val |-> 0]

\* A variant that calls func and loses its value.
ReturnNone(r) == [kind |-> "return", res |-> "ok", val |-> 0]

\* `return func()` when func returns: the caller receives func's value.
Return(r) == [kind |-> "return", res |-> "ok", val |-> r.val]

\* A variant that raises a fresh error in place of func's.
RaiseGeneric(r) == [kind |-> "raise", res |-> "err", val |-> 0]

\* An exception of func that no handler of retry_with_backoff catches
\* reaches the caller as it is.
Propagate(r) == [kind |-> "raise", res |-> r.res, val |-> r.val]

\* A variant whose loop runs one iteration less: range(retries - 1).
InRangeShort(a, n) == a + 1 < n

\* A variant whose loop runs one iteration more: range(retries + 1).
InRangeInclusive(a, n) == a <= n

\* `for attempt in range(retries)`: the loop body runs while attempt < retries.
InRange(a, n) == a < n

\* A variant whose loop never advances.
NextAttemptStuck(a) == a

\* The loop variable advances by one per iteration.
NextAttempt(a) == a + 1

\* Variants of the backoff step: no growth, and growth by one tick.
NextDelayConstant(d) == d
NextDelayLinear(d) == d + 1

\* `current_delay *= 2`
NextDelay(d) == d * 2

\* No call of retry_with_backoff is running.
RetryIdle ==
    /\ retries = 0
    /\ delay = 0
    /\ rpc = "idle"
    /\ attempt = 0
    /\ current_delay = 0
    /\ trace = <<>>
    /\ outcome = NoOutcome

---------------------------------------------------------------------------
\* shared.chains

\* The list `chain_envs` of _initialize_connections.
chain_envs ==
    << [name |-> "ethereum", env |-> "ETH_RPC_URL"],
       [name |-> "polygon",  env |-> "POLYGON_RPC_URL"],
       [name |-> "arbitrum", env |-> "ARBITRUM_RPC_URL"],
       [name |-> "optimism", env |-> "OPTIMISM_RPC_URL"],
       [name |-> "bsc",      env |-> "BSC_RPC_URL"] >>

EnvVars == {chain_envs[i].env : i \in DOMAIN chain_envs}

\* The values a variable of the environment takes here: not set (os.getenv
\* gives None), set to the empty string, or set to the chain's URL.
None == "<None>"
UrlOf(v) ==
    CASE v = "ETH_RPC_URL"      -> "https://eth"
      [] v = "POLYGON_RPC_URL"  -> "https://polygon"
      [] v = "ARBITRUM_RPC_URL" -> "https://arbitrum"
      [] v = "OPTIMISM_RPC_URL" -> "https://optimism"
      [] v = "BSC_RPC_URL"      -> "https://bsc"
Urls == {UrlOf(v) : v \in EnvVars}

\* `os.getenv(env_var)`
Getenv(v) == environ[v]

\* A variant that tests `url is None` only.
MissingOnlyNone(url) == url = None

\* `if not url`: None and the empty string are both falsy.
Missing(url) == url = None \/ url = ""

\* `Web3(Web3.HTTPProvider(url))`: a new client bound to url.
NumOpened == Cardinality({p \in DOMAIN events : events[p].kind = "open"})
NewClient(url) == [url |-> url, id |-> NumOpened + 1]
NoClient == [url |-> "", id |-> 0]

\* `w3.isConnected()`: the endpoint of the client's URL answers.
IsConnected(h) == h.url \in reachable

\* A variant that never rejects a client.
RejectsNever(h) == FALSE

\* `if not w3.isConnected()`: the client is rejected.
Rejects(h) == ~IsConnected(h)

\* `ChainConnection(name=name, web3=w3)`
ChainConnection(name, h) == [name |-> name, web3 |-> h]

\* A variant that puts the new connection in front.
Prepended(conns, c) == <<c>> \o conns

\* `connections.append(...)`
Appended(conns, c) == Append(conns, c)

\* A variant that walks chain_envs from its end.
EntryReversed(i) == chain_envs[Len(chain_envs) + 1 - i]

\* `for name, env in chain_envs`: the entry of the i-th iteration.
Entry(i) == chain_envs[i]

\* A variant that tries the same entry again after its connect raised.
RetrySame(i) == [bpc |-> "connect", idx |-> i]

\* A variant that skips an entry whose connect raised and goes on.
SkipFailed(i) == [bpc |-> "connect", idx |-> i + 1]

\* An exception raised by _connect is caught nowhere: it leaves the loop,
\* _initialize_connections and the import of the module.
OnConnectError(i) == [bpc |-> "failed", idx |-> i]

ValueError(var, name)  == [type |-> "ValueError", name |-> name, var |-> var]

\* A variant that reports an unreachable endpoint as a configuration error.
ConnectionErrorAsValueError(name) ==
    [type |-> "ValueError", name |-> name, var |-> ""]

ConnectionError(name)  == [type |-> "ConnectionError", name |-> name, var |-> ""]
NoError == [type |-> "none", name |-> "", var |-> ""]

\* The module global before `ALL_CHAINS = ...` has run, and after.
Unbound == [bound |-> FALSE, list |-> <<>>]
Bound(conns) == [bound |-> TRUE, list |-> conns]

\* One record of `events`: a call of the logger or an operation on a client.
Ev(kind, name, arg, h) == [kind |-> kind, name |-> name, arg |-> arg, h |-> h]

\* The four calls of the logger in _connect.
LogNotSet(env, name)   == Ev("error_not_set", name, env, 0)
LogConnecting(name, url) == Ev("info_connecting", name, url, 0)

\* A variant that logs the success message where the failure is reported.
LogUnableAsConnected(name, url) == Ev("info_connected", name, "", 0)

LogUnable(name, url)   == Ev("error_unable", name, url, 0)
LogConnected(name)     == Ev("info_connected", name, "", 0)

\* The module shared.chains is not being imported.
BootIdle ==
    /\ environ = [v \in EnvVars |-> None]
    /\ reachable = {}
    /\ bpc = "idle"
    /\ idx = 1
    /\ w3 = NoClient
    /\ connections = <<>>
    /\ ALL_CHAINS = Unbound
    /\ raised = NoError
    /\ events = <<>>

\* The import starts: `connections = []`, the loop at the first entry, in
\* any environment and with any set of endpoints answering.
BootStart ==
    /\ environ \in [EnvVars -> {None, ""} \cup Urls]
    /\ \A v \in EnvVars : environ[v] \in {None, "", UrlOf(v)}
    /\ reachable \in SUBSET Urls
    /\ bpc = "connect"
    /\ idx = 1
    /\ w3 = NoClient
    /\ connections = <<>>
    /\ ALL_CHAINS = Unbound
    /\ raised = NoError
    /\ events = <<>>

\* _connect, the URL missing: log the error and raise ValueError.
ConnectMissingUrl ==
    /\ bpc = "connect"
    /\ idx <= Len(chain_envs)
    /\ LET name == Entry(idx).name
           env  == Entry(idx).env
           url  == Getenv(env)
       IN  /\ Missing(url)
           /\ events' = Append(events, LogNotSet(env, name))
           /\ raised' = ValueError(env, name)
           /\ bpc' = OnConnectError(idx).bpc
           /\ idx' = OnConnectError(idx).idx
    /\ UNCHANGED <<environ, reachable, w3, connections, ALL_CHAINS>>
    /\ UNCHANGED bootFrame

\* _connect, the URL present: log the attempt and open the client.
ConnectOpen ==
    /\ bpc = "connect"
    /\ idx <= Len(chain_envs)
    /\ LET name == Entry(idx).name
           url  == Getenv(Entry(idx).env)
           h    == NewClient(url)
       IN  /\ ~Missing(url)
           /\ events' = events \o << LogConnecting(name, url),
                                     Ev("open", name, url, h.id) >>
           /\ w3' = h
    /\ bpc' = "check"
    /\ UNCHANGED <<environ, reachable, idx, connections, ALL_CHAINS, raised>>
    /\ UNCHANGED bootFrame

\* The answer of w3.isConnected(), as a record of `events`.
CheckEvent(name, h) ==
    Ev(IF IsConnected(h) THEN "isConnected_true" ELSE "isConnected_false",
       name, h.url, h.id)

\* _connect, the client rejected: log the error and raise ConnectionError.
ConnectUnreachable ==
    /\ bpc = "check"
    /\ Rejects(w3)
    /\ LET name == Entry(idx).name
       IN  /\ events' = events \o << CheckEvent(name, w3),
                                     LogUnable(name, w3.url) >>
           /\ raised' = ConnectionError(name)
    /\ bpc' = OnConnectError(idx).bpc
    /\ idx' = OnConnectError(idx).idx
    /\ UNCHANGED <<environ, reachable, w3, connections, ALL_CHAINS>>
    /\ UNCHANGED bootFrame

\* _connect, the client accepted: log the success, return the connection;
\* the caller appends it and moves to the next entry.
ConnectOk ==
    /\ bpc = "check"
    /\ ~Rejects(w3)
    /\ LET name == Entry(idx).name
       IN  /\ events' = events \o << CheckEvent(name, w3),
                                     LogConnected(name) >>
           /\ connections' = Appended(connections, ChainConnection(name, w3))
    /\ idx' = idx + 1
    /\ bpc' = "connect"
    /\ UNCHANGED <<environ, reachable, w3, ALL_CHAINS, raised>>
    /\ UNCHANGED bootFrame

\* The loop is over: `return connections`, and the module binds ALL_CHAINS.
Finish ==
    /\ bpc = "connect"
    /\ idx > Len(chain_envs)
    /\ ALL_CHAINS' = Bound(connections)
    /\ bpc' = "ready"
    /\ UNCHANGED <<environ, reachable, idx, w3, connections, raised, events>>
    /\ UNCHANGED bootFrame

BootNext ==
    \/ ConnectMissingUrl
    \/ ConnectOpen
    \/ ConnectUnreachable
    \/ ConnectOk
    \/ Finish

\* The names config.py reads with required=(MODE != "test"), in the order
\* of its statements, and the names it parses with float().
CredVars  == <<"PRIVATE_KEY", "PUBLIC_ADDRESS", "FLASHBOTS_KEY", "FLASHBOTS_ADDRESS">>
FloatVars == <<"TARGET_PROFIT", "CAPITAL_START">>
AddrVars  == <<"WETH_ADDRESS", "USDC_ADDRESS">>

Range(f) == {f[i] : i \in DOMAIN f}

ConfigEnvNames == {"MODE"} \cup Range(CredVars) \cup Range(FloatVars) \cup Range(AddrVars)
GlobalNames == Range(CredVars) \cup Range(FloatVars) \cup Range(AddrVars)

NotBound == "<unbound>"
NoConfigError == [type |-> "none", var |-> ""]

\* The module config is not being imported.
ConfIdle ==
    /\ osenv = [n \in ConfigEnvNames |-> None]
    /\ cpc = "idle"
    /\ MODE = NotBound
    /\ loaded = [n \in GlobalNames |-> NotBound]
    /\ cerr = NoConfigError

\* An integer is its sign and its decimal digits, most significant first;
\* a decimal is a sign, the digits of its coefficient and an exponent of ten.
NoInt     == [neg |-> FALSE, digits |-> <<>>]
NoDecimal == [kind |-> "none", neg |-> FALSE, digits |-> <<>>, exp |-> 0]

\* No conversion is being made.
ConvIdle ==
    /\ wei = NoInt
    /\ ether = NoDecimal
    /\ back = NoInt
    /\ vpc = "idle"
    /\ verr = "none"

BootInit == BootStart /\ RetryIdle /\ ConfIdle /\ ConvIdle

BootSpec == BootInit /\ [][BootNext]_vars

---------------------------------------------------------------------------
\* utils.retry_with_backoff

\* The state on entry: `current_delay = delay`, the loop at its first index.
\* `retries` is a count and `delay` a duration: neither is negative.
RetryStart ==
    /\ retries \in 0..MaxRetries
    /\ delay \in 0..MaxDelay
    /\ rpc = "loop"
    /\ attempt = 0
    /\ current_delay = delay
    /\ trace = <<>>
    /\ outcome = NoOutcome

\* `return func()` inside the loop, func returning.
TryReturns ==
    /\ rpc = "loop"
    /\ InRange(attempt, retries)
    /\ Len(trace) < MaxTrace
    /\ \E r \in FuncResults :
          /\ r.res = "ok"
          /\ trace' = Append(trace, CallEvent(r))
          /\ outcome' = Return(r)
    /\ rpc' = "done"
    /\ UNCHANGED <<retries, delay, attempt, current_delay>>
    /\ UNCHANGED retryFrame

\* func raises an Exception inside the loop: `except Exception as exc` takes it.
TryRaises ==
    /\ rpc = "loop"
    /\ InRange(attempt, retries)
    /\ Len(trace) < MaxTrace
    /\ \E r \in FuncResults :
          /\ r.res = "err"
          /\ trace' = Append(trace, CallEvent(r))
    /\ rpc' = "except"
    /\ UNCHANGED <<retries, delay, attempt, current_delay, outcome>>
    /\ UNCHANGED retryFrame

\* func raises a BaseException that `except Exception` does not match.
TryAborts ==
    /\ rpc = "loop"
    /\ InRange(attempt, retries)
    /\ Len(trace) < MaxTrace
    /\ \E r \in FuncResults :
          /\ r.res = "abort"
          /\ trace' = Append(trace, CallEvent(r))
          /\ outcome' = Propagate(r)
    /\ rpc' = "done"
    /\ UNCHANGED <<retries, delay, attempt, current_delay>>
    /\ UNCHANGED retryFrame

\* The handler: warn, `sleep(current_delay)`, `current_delay *= 2`, next index.
Backoff ==
    /\ rpc = "except"
    /\ trace' = Append(trace, SleepEvent(current_delay))
    /\ current_delay' = NextDelay(current_delay)
    /\ attempt' = NextAttempt(attempt)
    /\ rpc' = "loop"
    /\ UNCHANGED <<retries, delay, outcome>>
    /\ UNCHANGED retryFrame

\* `# final attempt`: `return func()` after the loop, func returning.
FinalReturns ==
    /\ rpc = "loop"
    /\ ~InRange(attempt, retries)
    /\ \E r \in FuncResults :
          /\ r.res = "ok"
          /\ trace' = Append(trace, CallEvent(r))
          /\ outcome' = Return(r)
    /\ rpc' = "done"
    /\ UNCHANGED <<retries, delay, attempt, current_delay>>
    /\ UNCHANGED retryFrame

\* The final attempt raising: nothing catches it.
FinalRaises ==
    /\ rpc = "loop"
    /\ ~InRange(attempt, retries)
    /\ \E r \in FuncResults :
          /\ r.res # "ok"
          /\ trace' = Append(trace, CallEvent(r))
          /\ outcome' = Propagate(r)
    /\ rpc' = "done"
    /\ UNCHANGED <<retries, delay, attempt, current_delay>>
    /\ UNCHANGED retryFrame

RetryNext ==
    \/ TryReturns
    \/ TryRaises
    \/ TryAborts
    \/ Backoff
    \/ FinalReturns
    \/ FinalRaises

RetryInit == RetryStart /\ BootIdle /\ ConfIdle /\ ConvIdle

RetrySpec == RetryInit /\ [][RetryNext]_vars

\* The caller's thread runs the call to its end: func returns or raises at
\* every invocation and sleep returns.
RetryFairSpec == RetrySpec /\ WF_vars(RetryNext)

---------------------------------------------------------------------------
\* config

\* A variant that compares MODE as it was typed.
LowerIdentity(str) == str

\* `.lower()` on the values MODE takes here.
Lower(str) ==
    CASE str = "TEST" -> "test"
      [] str = "Test" -> "test"
      [] str = "LIVE" -> "live"
      [] OTHER -> str

\* `os.getenv(name, default)`: the default stands in for a name not set.
GetenvDefault(name, default) ==
    IF osenv[name] = None THEN default ELSE osenv[name]

\* _get_env raises when the value is required and None.
GetEnvRaises(name, default, required) ==
    required /\ GetenvDefault(name, default) = None

\* `required=MODE != "test"`
Required(mode) == mode # "test"

\* float(str) succeeds on the numerals among the values used here.
FloatParses(str) == str \in {"0.01", "10000", "0.5"}

RuntimeError(name)    == [type |-> "RuntimeError", var |-> name]
FloatValueError(name) == [type |-> "ValueError", var |-> name]

\* The statements of the module, in order; "RPC" stands for the five
\* *_RPC_URL assignments, "ADDRESSES" for the if/else on MODE at the end.
Statements ==
    << "MODE", "PRIVATE_KEY", "PUBLIC_ADDRESS", "RPC", "FLASHBOTS_KEY",
       "FLASHBOTS_ADDRESS", "TARGET_PROFIT", "CAPITAL_START", "ADDRESSES" >>

StatementIndex(st) == CHOOSE i \in DOMAIN Statements : Statements[i] = st

NextStatement(st) ==
    IF StatementIndex(st) = Len(Statements) THEN "loaded"
    ELSE Statements[StatementIndex(st) + 1]

\* The defaults of WETH_ADDRESS and USDC_ADDRESS in either mode.
AddressDefault(name, mode) ==
    IF mode = "test"
    THEN (IF name = "WETH_ADDRESS"
          THEN "0x000000000000000000000000000000000000dead"
          ELSE "0x000000000000000000000000000000000000beef")
    ELSE (IF name = "WETH_ADDRESS"
          THEN "0xC02aaA39b223FE8D0A0e5C4F27eAD9083C756Cc2"
          ELSE "0xA0b86991c6218b36c1d19D4a2e9Eb0cE3606eB48")

\* The import starts after load_dotenv(), in any environment.
ConfStart ==
    /\ \E m \in {None, "", "test", "TEST", "live", "LIVE"},
          c \in [Range(CredVars) -> {None, "", "0xset"}],
          f \in [Range(FloatVars) -> {None, "0.5", "abc"}],
          w \in {None, "0xset"} :
          osenv = [n \in ConfigEnvNames |->
                     IF n = "MODE" THEN m
                     ELSE IF n \in Range(CredVars) THEN c[n]
                     ELSE IF n \in Range(FloatVars) THEN f[n]
                     ELSE IF n = "WETH_ADDRESS" THEN w
                     ELSE None]
    /\ cpc = "MODE"
    /\ MODE = NotBound
    /\ loaded = [n \in GlobalNames |-> NotBound]
    /\ cerr = NoConfigError

\* `MODE: str = _get_env("MODE", "test").lower()`
LoadMode ==
    /\ cpc = "MODE"
    /\ MODE' = Lower(GetenvDefault("MODE", "test"))
    /\ cpc' = NextStatement(cpc)
    /\ UNCHANGED <<osenv, loaded, cerr>>
    /\ UNCHANGED confFrame

\* `X = _get_env("X", required=MODE != "test")`, _get_env returning.
LoadCredential ==
    /\ cpc \in Range(CredVars)
    /\ ~GetEnvRaises(cpc, None, Required(MODE))
    /\ loaded' = [loaded EXCEPT ![cpc] = GetenvDefault(cpc, None)]
    /\ cpc' = NextStatement(cpc)
    /\ UNCHANGED <<osenv, MODE, cerr>>
    /\ UNCHANGED confFrame

\* The same statement, _get_env raising RuntimeError.
LoadCredentialRaises ==
    /\ cpc \in Range(CredVars)
    /\ GetEnvRaises(cpc, None, Required(MODE))
    /\ cerr' = RuntimeError(cpc)
    /\ cpc' = "failed"
    /\ UNCHANGED <<osenv, MODE, loaded>>
    /\ UNCHANGED confFrame

\* The five *_RPC_URL assignments: each has a default and is not required.
LoadRpcUrls ==
    /\ cpc = "RPC"
    /\ cpc' = NextStatement(cpc)
    /\ UNCHANGED <<osenv, MODE, loaded, cerr>>
    /\ UNCHANGED confFrame

\* `X = float(_get_env("X", "<numeral>"))`, float() returning.
LoadFloat ==
    /\ cpc \in Range(FloatVars)
    /\ LET str == GetenvDefault(cpc, IF cpc = "TARGET_PROFIT" THEN "0.01" ELSE "10000")
       IN  /\ FloatParses(str)
           /\ loaded' = [loaded EXCEPT ![cpc] = str]
    /\ cpc' = NextStatement(cpc)
    /\ UNCHANGED <<osenv, MODE, cerr>>
    /\ UNCHANGED confFrame

\* The same statement, float() raising ValueError.
LoadFloatRaises ==
    /\ cpc \in Range(FloatVars)
    /\ LET str == GetenvDefault(cpc, IF cpc = "TARGET_PROFIT" THEN "0.01" ELSE "10000")
       IN  ~FloatParses(str)
    /\ cerr' = FloatValueError(cpc)
    /\ cpc' = "failed"
    /\ UNCHANGED <<osenv, MODE, loaded>>
    /\ UNCHANGED confFrame

\* `if MODE == "test": ... else: ...`: the two contract addresses.
LoadAddresses ==
    /\ cpc = "ADDRESSES"
    /\ loaded' = [n \in GlobalNames |->
                    IF n \in Range(AddrVars)
                    THEN GetenvDefault(n, AddressDefault(n, MODE))
                    ELSE loaded[n]]
    /\ cpc' = NextStatement(cpc)
    /\ UNCHANGED <<osenv, MODE, cerr>>
    /\ UNCHANGED confFrame

ConfNext ==
    \/ LoadMode
    \/ LoadCredential
    \/ LoadCredentialRaises
    \/ LoadRpcUrls
    \/ LoadFloat
    \/ LoadFloatRaises
    \/ LoadAddresses

ConfInit == ConfStart /\ RetryIdle /\ BootIdle /\ ConvIdle

ConfSpec == ConfInit /\ [][ConfNext]_vars

---------------------------------------------------------------------------
\* utils.wei_to_ether, utils.ether_to_wei

\* The unit "ether": 10^18 wei.
EtherDecimals == 18

Zeros(n) == [i \in 1..n |-> 0]

RECURSIVE TrailingZeros(_)
TrailingZeros(d) ==
    IF d = <<>> \/ d[Len(d)] # 0 THEN 0
    ELSE 1 + TrailingZeros(SubSeq(d, 1, Len(d) - 1))

Smaller(a, b) == IF a < b THEN a ELSE b

IsZero(n) == \A i \in DOMAIN n.digits : n.digits[i] = 0

IntZero == [neg |-> FALSE, digits |-> <<0>>]

\* Web3.fromWei(number, "ether"): 0 for 0, else the decimal number / 10^18,
\* exact, its coefficient without the zeros the division removes.
FromWei(n) ==
    IF IsZero(n)
    THEN [kind |-> "int", neg |-> FALSE, digits |-> <<0>>, exp |-> 0]
    ELSE LET z == Smaller(TrailingZeros(n.digits), EtherDecimals)
         IN  [kind |-> "decimal", neg |-> n.neg,
              digits |-> SubSeq(n.digits, 1, Len(n.digits) - z),
              exp |-> z - EtherDecimals]

\* Web3.fromWei rejects a number below MIN_WEI = 0.
FromWeiRaises(n) == n.neg /\ ~IsZero(n)

\* Web3.toWei(number, "ether"): number * 10^18 as an integer, the part
\* below one wei dropped.
ToWei(d) ==
    IF IsZero(d) THEN IntZero
    ELSE LET e == d.exp + EtherDecimals
         IN  IF e >= 0
             THEN [neg |-> d.neg, digits |-> d.digits \o Zeros(e)]
             ELSE IF Len(d.digits) + e <= 0
                  THEN IntZero
                  ELSE [neg |-> d.neg,
                        digits |-> SubSeq(d.digits, 1, Len(d.digits) + e)]

\* Web3.toWei rejects a result below MIN_WEI = 0.
ToWeiRaises(d) == d.neg /\ ~IsZero(d)

\* A variant that returns a float, as the annotation `-> float` says: a
\* decimal keeps 17 significant digits at most.
WeiToEtherAsFloat(n) ==
    LET d == FromWei(n)
    IN  IF Len(d.digits) <= 17 THEN d
        ELSE LET kept == SubSeq(d.digits, 1, 17)
                 z    == TrailingZeros(kept)
             IN  [kind |-> "decimal", neg |-> d.neg,
                  digits |-> SubSeq(kept, 1, 17 - z),
                  exp |-> d.exp + (Len(d.digits) - 17) + z]

\* wei_to_ether returns what Web3.fromWei returns.
WeiToEther(n) == FromWei(n)

\* ether_to_wei returns what Web3.toWei returns.
EtherToWei(d) == ToWei(d)

\* The integers given to wei_to_ether: 0..MaxDigit and a * 10^j + b, of
\* either sign.
WeiInputs ==
    LET mags == {<<b>> : b \in 0..MaxDigit}
                  \cup {<<a>> \o Zeros(j - 1) \o <<b>> :
                          a \in 1..MaxDigit, j \in 1..MaxShift, b \in 0..MaxDigit}
    IN  {[neg |-> sg, digits |-> m] : sg \in BOOLEAN, m \in mags}
            \ {[neg |-> TRUE, digits |-> <<0>>]}

\* The decimals given to ether_to_wei by a caller of its own: a digit times
\* a tenth of a wei, a wei or an ether, of either sign.
EtherInputs ==
    {[kind |-> "decimal", neg |-> sg, digits |-> <<a>>, exp |-> e] :
        sg \in BOOLEAN, a \in 1..MaxDigit,
        e \in {0 - EtherDecimals - 1, 0 - EtherDecimals, 0}}

\* Either wei_to_ether is called, on any integer, and ether_to_wei on its
\* result; or ether_to_wei alone is called, on any decimal.
ConvStart ==
    /\ \/ wei \in WeiInputs /\ ether = NoDecimal /\ vpc = "to_ether"
       \/ wei = NoInt /\ ether \in EtherInputs /\ vpc = "to_wei"
    /\ back = NoInt
    /\ verr = "none"

\* wei_to_ether(value), the conversion returning.
ConvertToEther ==
    /\ vpc = "to_ether"
    /\ ~FromWeiRaises(wei)
    /\ ether' = WeiToEther(wei)
    /\ vpc' = "to_wei"
    /\ UNCHANGED <<wei, back, verr>>
    /\ UNCHANGED convFrame

\* wei_to_ether(value), the conversion raising: log the error, re-raise.
ConvertToEtherRaises ==
    /\ vpc = "to_ether"
    /\ FromWeiRaises(wei)
    /\ verr' = "ValueError"
    /\ vpc' = "failed"
    /\ UNCHANGED <<wei, ether, back>>
    /\ UNCHANGED convFrame

\* ether_to_wei(value), the conversion returning.
ConvertToWei ==
    /\ vpc = "to_wei"
    /\ ~ToWeiRaises(ether)
    /\ back' = EtherToWei(ether)
    /\ vpc' = "done"
    /\ UNCHANGED <<wei, ether, verr>>
    /\ UNCHANGED convFrame

\* ether_to_wei(value), the conversion raising: log the error, re-raise.
ConvertToWeiRaises ==
    /\ vpc = "to_wei"
    /\ ToWeiRaises(ether)
    /\ verr' = "ValueError"
    /\ vpc' = "failed"
    /\ UNCHANGED <<wei, ether, back>>
    /\ UNCHANGED convFrame

ConvNext ==
    \/ ConvertToEther
    \/ ConvertToEtherRaises
    \/ ConvertToWei
    \/ ConvertToWeiRaises

ConvInit == ConvStart /\ RetryIdle /\ BootIdle /\ ConfIdle

ConvSpec == ConvInit /\ [][ConvNext]_vars

---------------------------------------------------------------------------
\* Reading the trace of one call.
RECURSIVE Pow2(_)
Pow2(n) == IF n <= 0 THEN 1 ELSE 2 * Pow2(n - 1)

IsCall(e)  == e.kind = "call"
IsSleep(e) == e.kind = "sleep"

CallsOf(t)  == SelectSeq(t, IsCall)
SleepsOf(t) == SelectSeq(t, IsSleep)
NumCalls(t)  == Len(CallsOf(t))
NumSleeps(t) == Len(SleepsOf(t))

RECURSIVE SumVal(_)
SumVal(t) == IF t = <<>> THEN 0 ELSE Head(t).val + SumVal(Tail(t))

TotalWait(t) == SumVal(SleepsOf(t))

\* Every invocation so far raised an Exception.
AllErr(t) == \A i \in DOMAIN t : IsCall(t[i]) => t[i].res = "err"
\* Every invocation so far failed, with an Exception or any other BaseException.
AllFailed(t) == \A i \in DOMAIN t : IsCall(t[i]) => t[i].res # "ok"

Done == rpc = "done"
LastEvent == trace[Len(trace)]

C2_LastErrorPropagated ==
    (Done /\ AllFailed(trace)) =>
        /\ Len(trace) >= 1
        /\ IsCall(LastEvent)
        /\ outcome.kind = "raise"
        /\ outcome.res = LastEvent.res
        /\ outcome.val = LastEvent.val

C2_Witness ==
    /\ Done
    /\ AllErr(trace)
    /\ NumCalls(trace) >= 3
    /\ trace[1].val # LastEvent.val
    /\ outcome.val = LastEvent.val

\* The first k-1 invocations raised an Exception and the k-th returned.
SucceedsAt(k) ==
    /\ NumCalls(trace) >= k
    /\ \A j \in 1..(k - 1) : CallsOf(trace)[j].res = "err"
    /\ CallsOf(trace)[k].res = "ok"

\* C3: for 1 <= k <= maxAttempts, if the action fails k-1 times and then
\* succeeds, the call returns the value of the k-th invocation, the action was
\* invoked exactly k times and nothing follows the successful invocation; and
\* the call does not give up before the k-th invocation.
C3_FirstSuccessReturned ==
    \A k \in 1..retries :
        /\ SucceedsAt(k) =>
              /\ NumCalls(trace) = k
              /\ Done
              /\ LastEvent = CallsOf(trace)[k]
              /\ outcome = [kind |-> "return", res |-> "ok",
                            val |-> CallsOf(trace)[k].val]
        /\ (Done /\ AllErr(trace)) => NumCalls(trace) >= k

C3_Witness ==
    /\ Done
    /\ retries = 3
    /\ SucceedsAt(3)
    /\ outcome.kind = "return"

C5_DoublingSchedule ==
    \A p \in DOMAIN trace :
        IsSleep(trace[p]) =>
            /\ p > 1
            /\ IsCall(trace[p - 1])
            /\ trace[p - 1].res = "err"
            /\ AllErr(SubSeq(trace, 1, p))
            /\ trace[p].val = delay * Pow2(NumCalls(SubSeq(trace, 1, p)) - 1)
            /\ p < Len(trace) => IsCall(trace[p + 1])
            /\ Done => p < Len(trace)

C5_Witness ==
    /\ Done
    /\ delay = 1
    /\ NumSleeps(trace) = 3
    /\ SleepsOf(trace)[1].val = 1
    /\ SleepsOf(trace)[2].val = 2
    /\ SleepsOf(trace)[3].val = 4

\* C6: whatever the invocations do, the call ends, by a return or a raise.
C6_Terminates == <>(Done /\ outcome.kind \in {"return", "raise"})

C6_Witness ==
    /\ Done
    /\ retries >= 2
    /\ NumSleeps(trace) = retries
    /\ outcome.kind = "raise"

---------------------------------------------------------------------------
\* Reading the state of the bootstrap.
NumEntries == Len(chain_envs)

\* The entry at position i has a non-empty URL whose endpoint answers.
EntryOk(i) ==
    /\ ~(environ[chain_envs[i].env] = None \/ environ[chain_envs[i].env] = "")
    /\ environ[chain_envs[i].env] \in reachable

AllOk == \A i \in 1..NumEntries : EntryOk(i)

\* i is the first position, in input order, whose connect fails.
FirstBad(i) == ~EntryOk(i) /\ \A j \in 1..(i - 1) : EntryOk(j)

\* The error the connect of entry i raises.
ErrorOf(i) ==
    IF environ[chain_envs[i].env] = None \/ environ[chain_envs[i].env] = ""
    THEN [type |-> "ValueError", name |-> chain_envs[i].name,
          var |-> chain_envs[i].env]
    ELSE [type |-> "ConnectionError", name |-> chain_envs[i].name, var |-> ""]

PositionOf(name) == CHOOSE i \in 1..NumEntries : chain_envs[i].name = name

\* One connection per configured entry, in the order of the entries.
FullRegistry(list) ==
    /\ Len(list) = NumEntries
    /\ \A i \in 1..NumEntries : list[i].name = chain_envs[i].name

\* C7: ALL_CHAINS is either not bound or holds one connection for every
\* configured entry; a bootstrap that failed after some entries succeeded
\* leaves it unbound.
C7_AllOrNothing ==
    /\ ALL_CHAINS.bound => FullRegistry(ALL_CHAINS.list)
    /\ ~ALL_CHAINS.bound => ALL_CHAINS.list = <<>>
    /\ bpc = "failed" => ~ALL_CHAINS.bound
    /\ bpc = "ready" => ALL_CHAINS.bound

C7_Witness ==
    /\ bpc = "failed"
    /\ Len(connections) >= 2
    /\ ~ALL_CHAINS.bound

\* C8: if position i is the first whose connect fails, the bootstrap fails
\* with that entry's error and nothing is done for any entry after i.
C8_FailFast ==
    \A i \in 1..NumEntries :
        FirstBad(i) =>
            /\ bpc # "ready"
            /\ \A p \in DOMAIN events : PositionOf(events[p].name) <= i
            /\ bpc = "failed" =>
                  /\ raised = ErrorOf(i)
                  /\ idx = i
                  /\ Len(connections) = i - 1

C8_Witness ==
    /\ bpc = "failed"
    /\ EntryOk(1)
    /\ FirstBad(2)
    /\ ~EntryOk(3)
    /\ raised = [type |-> "ConnectionError", name |-> "polygon", var |-> ""]

\* C9: when every entry has a non-empty URL and a reachable endpoint, the
\* bootstrap does not fail and its registry has one connection per entry,
\* five in all, with distinct names, the i-th named as the i-th entry.
C9_FullRegistryInOrder ==
    AllOk =>
        /\ bpc # "failed"
        /\ raised = NoError
        /\ \A i \in 1..Len(connections) :
              connections[i].name = chain_envs[i].name
        /\ bpc = "ready" =>
              /\ ALL_CHAINS.bound
              /\ Len(ALL_CHAINS.list) = 5
              /\ [i \in 1..5 |-> ALL_CHAINS.list[i].name]
                    = <<"ethereum", "polygon", "arbitrum", "optimism", "bsc">>
              /\ \A i, j \in 1..5 :
                    i # j => ALL_CHAINS.list[i].name # ALL_CHAINS.list[j].name
              /\ \A i \in 1..5 : ALL_CHAINS.list[i].name = chain_envs[i].name

C9_Witness ==
    /\ bpc = "ready"
    /\ AllOk
    /\ Len(ALL_CHAINS.list) = 5

\* The connection c was checked: isConnected() answered True on its own client.
Validated(c) ==
    /\ c.web3.url \in reachable
    /\ \E p \in DOMAIN events :
          /\ events[p].kind = "isConnected_true"
          /\ events[p].name = c.name
          /\ events[p].h = c.web3.id
          /\ events[p].arg = c.web3.url
    /\ \A p \in DOMAIN events :
          events[p].kind = "isConnected_false" => events[p].h # c.web3.id

\* C10: every connection, in the list being built or in ALL_CHAINS, was
\* produced after isConnected() answered True on its own client; a check
\* that answered False yields no connection.
C10_MembersValidated ==
    /\ \A i \in DOMAIN connections : Validated(connections[i])
    /\ \A i \in DOMAIN ALL_CHAINS.list : Validated(ALL_CHAINS.list[i])
    /\ \A p \in DOMAIN events :
          events[p].kind = "isConnected_false" =>
              /\ bpc = "failed"
              /\ \A i \in DOMAIN connections :
                    connections[i].name # events[p].name
    /\ Len(connections)
          = Cardinality({p \in DOMAIN events :
                            events[p].kind = "isConnected_true"})

C10_Witness ==
    /\ bpc = "failed"
    /\ Len(connections) = 2
    /\ \E p \in DOMAIN events : events[p].kind = "isConnected_false"

---------------------------------------------------------------------------
\* The URL of the entry at position i is absent or empty.
UrlMissing(i) ==
    environ[chain_envs[i].env] = None \/ environ[chain_envs[i].env] = ""

EventsOf(name) == SelectSeq(events, LAMBDA e : e.name = name)
KindsOf(name) == {events[p].kind : p \in {q \in DOMAIN events : events[q].name = name}}

HasConnection(name) ==
    \/ \E k \in DOMAIN connections : connections[k].name = name
    \/ \E k \in DOMAIN ALL_CHAINS.list : ALL_CHAINS.list[k].name = name

\* The connect of the entry at position i has ended by raising.
ConnectFailedAt(i) == bpc = "failed" /\ idx = i

\* C11: if the URL of an entry is absent or empty, its connect raises the
\* configuration error (ValueError) naming that entry's variable, before
\* any client is opened or checked for the entry, and no registry results.
C11_MissingUrlIsConfigError ==
    \A i \in 1..NumEntries :
        UrlMissing(i) =>
            /\ KindsOf(chain_envs[i].name) \subseteq {"error_not_set"}
            /\ ~HasConnection(chain_envs[i].name)
            /\ bpc # "ready"
            /\ ~ALL_CHAINS.bound
            /\ idx <= i
            /\ ConnectFailedAt(i) =>
                  /\ raised.type = "ValueError"
                  /\ raised.var = chain_envs[i].env
                  /\ raised.name = chain_envs[i].name
                  /\ events[Len(events)].kind = "error_not_set"
                  /\ events[Len(events)].arg = chain_envs[i].env

C11_Witness ==
    /\ ConnectFailedAt(3)
    /\ environ["ARBITRUM_RPC_URL"] = ""
    /\ raised.var = "ARBITRUM_RPC_URL"
    /\ Len(connections) = 2

\* C12: if an entry has a non-empty URL and its reachability check fails,
\* its connect raises the connectivity error (ConnectionError, not the
\* ValueError of a missing URL) naming the chain, yields no connection, and
\* the bootstrap ends with that error and no registry.
C12_UnreachableIsConnectivityError ==
    \A i \in 1..NumEntries :
        (/\ ~UrlMissing(i)
         /\ environ[chain_envs[i].env] \notin reachable
         /\ "isConnected_false" \in KindsOf(chain_envs[i].name)) =>
            /\ ConnectFailedAt(i)
            /\ raised.type = "ConnectionError"
            /\ raised.type # "ValueError"
            /\ raised.name = chain_envs[i].name
            /\ ~HasConnection(chain_envs[i].name)
            /\ ~ALL_CHAINS.bound
            /\ "info_connected" \notin KindsOf(chain_envs[i].name)

C12_Witness ==
    /\ ConnectFailedAt(4)
    /\ ~UrlMissing(4)
    /\ raised = [type |-> "ConnectionError", name |-> "optimism", var |-> ""]
    /\ Len(connections) = 3

---------------------------------------------------------------------------
\* The log records of the connect of one chain, by kind, in order:
\* "info_connecting" is the attempt started, "info_connected" the attempt
\* succeeded, "error_not_set" and "error_unable" the attempt failed.
LogKinds == {"info_connecting", "info_connected", "error_not_set", "error_unable"}
FailedKinds == {"error_not_set", "error_unable"}

LogsOf(name) ==
    LET sel == SelectSeq(events, LAMBDA e : e.name = name /\ e.kind \in LogKinds)
    IN  [p \in 1..Len(sel) |-> sel[p].kind]

\* The connect of the entry at position i has returned a connection.
ConnectReturnedAt(i) == idx > i

\* C14 as stated: every connect call that has ended logged the attempt
\* started first and then exactly one terminal record, succeeded exactly
\* when it returned and failed exactly when it raised, for a missing URL too.
C14_StartedThenOneTerminal ==
    \A i \in 1..NumEntries :
        (ConnectReturnedAt(i) \/ ConnectFailedAt(i)) =>
            LET L == LogsOf(chain_envs[i].name)
            IN  /\ Len(L) = 2
                /\ L[1] = "info_connecting"
                /\ L[2] = "info_connected" <=> ConnectReturnedAt(i)
                /\ L[2] \in FailedKinds <=> ConnectFailedAt(i)

\* C14 amended: a connect call that finds a non-empty URL logs the attempt
\* started first and then exactly one terminal record, succeeded exactly
\* when it returns a connection and failed exactly when it raises; a call
\* whose URL is missing logs the single failed record and no attempt
\* started; no succeeded record exists for a call that fails.
C14_OneTerminalStartedIfUrl ==
    \A i \in 1..NumEntries :
        LET L == LogsOf(chain_envs[i].name)
        IN  /\ ConnectReturnedAt(i) =>
                  /\ L = <<"info_connecting", "info_connected">>
                  /\ HasConnection(chain_envs[i].name)
            /\ (ConnectFailedAt(i) /\ ~UrlMissing(i)) =>
                  /\ L = <<"info_connecting", "error_unable">>
                  /\ ~HasConnection(chain_envs[i].name)
            /\ (ConnectFailedAt(i) /\ UrlMissing(i)) =>
                  /\ L = <<"error_not_set">>
                  /\ ~HasConnection(chain_envs[i].name)
            /\ (idx = i /\ bpc = "check") => L = <<"info_connecting">>
            /\ (idx < i \/ (idx = i /\ bpc = "connect")) => L = <<>>

C14_Witness ==
    /\ ConnectFailedAt(3)
    /\ UrlMissing(3)
    /\ LogsOf("arbitrum") = <<"error_not_set">>
    /\ LogsOf("polygon") = <<"info_connecting", "info_connected">>

\* An entry's connect is in progress: something was done for it and no
\* terminal record was logged.
InProgress(i) ==
    /\ KindsOf(chain_envs[i].name) # {}
    /\ KindsOf(chain_envs[i].name) \cap (FailedKinds \cup {"info_connected"}) = {}

\* C15: the connects run one after another in input order: whatever is done
\* for the entry at position i+1 comes after the success record of the entry
\* at position i, and at most one connect is in progress.
C15_StrictlySequential ==
    /\ \A p, q \in DOMAIN events :
          p < q => PositionOf(events[p].name) <= PositionOf(events[q].name)
    /\ \A q \in DOMAIN events :
          PositionOf(events[q].name) > 1 =>
              \E p \in 1..(q - 1) :
                  /\ events[p].kind = "info_connected"
                  /\ PositionOf(events[p].name) = PositionOf(events[q].name) - 1
    /\ \A p, q \in DOMAIN events :
          (/\ p < q
           /\ events[p].name = events[q].name)
              => events[p].kind \notin (FailedKinds \cup {"info_connected"})
    /\ Cardinality({i \in 1..NumEntries : InProgress(i)}) <= 1
    /\ \A i \in 1..NumEntries : InProgress(i) => (idx = i /\ bpc = "check")

C15_Witness ==
    /\ bpc = "check"
    /\ idx = 3
    /\ InProgress(3)
    /\ LogsOf("polygon") = <<"info_connecting", "info_connected">>

CountKind(name, kinds) ==
    Cardinality({p \in DOMAIN events :
                    events[p].name = name /\ events[p].kind \in kinds})

\* C16: within one bootstrap each entry is attempted at most once: at most
\* one client is opened and at most one reachability check made for it, and
\* a failed check is the last thing the bootstrap does.
C16_NoAutomaticRetry ==
    /\ \A i \in 1..NumEntries :
          /\ CountKind(chain_envs[i].name, {"open"}) <= 1
          /\ CountKind(chain_envs[i].name,
                       {"isConnected_true", "isConnected_false"}) <= 1
          /\ CountKind(chain_envs[i].name, {"info_connecting"}) <= 1
          /\ CountKind(chain_envs[i].name, FailedKinds) <= 1
    /\ \A p \in DOMAIN events :
          events[p].kind = "isConnected_false" =>
              /\ bpc = "failed"
              /\ p = Len(events) - 1
              /\ events[Len(events)].kind = "error_unable"
    /\ NumOpened <= NumEntries

C16_Witness ==
    /\ bpc = "failed"
    /\ idx = 2
    /\ CountKind("polygon", {"isConnected_false"}) = 1
    /\ CountKind("polygon", {"open"}) = 1

---------------------------------------------------------------------------
\* C18: with retries = 0 the call invokes func exactly once, never waits,
\* and ends with func's value or with func's error unchanged; and no call
\* waits except directly after an invocation of func that failed.
C18_ZeroRetriesSingleCall ==
    /\ retries = 0 =>
          /\ NumSleeps(trace) = 0
          /\ NumCalls(trace) <= 1
          /\ rpc # "except"
          /\ Done =>
                /\ Len(trace) = 1
                /\ IsCall(trace[1])
                /\ outcome.kind = (IF trace[1].res = "ok" THEN "return" ELSE "raise")
                /\ outcome.res = trace[1].res
                /\ outcome.val = trace[1].val
    /\ \A p \in DOMAIN trace :
          IsSleep(trace[p]) =>
              /\ p > 1
              /\ IsCall(trace[p - 1])
              /\ trace[p - 1].res # "ok"

C18_Witness ==
    /\ Done
    /\ retries = 0
    /\ Len(trace) = 1
    /\ outcome = [kind |-> "raise", res |-> "err", val |-> 2]

---------------------------------------------------------------------------
\* MODE in the environment is absent (the default is "test") or spells
\* "test" in any case.
TestModeEnv == osenv["MODE"] \in {None, "test", "TEST", "Test"}

CredUnset(k) == osenv[CredVars[k]] = None

\* k is the first of the four credentials, in statement order, that is unset.
FirstUnset(k) == CredUnset(k) /\ \A j \in 1..(k - 1) : ~CredUnset(j)

\* C17: in test mode the import never fails over an unset credential, each
\* unset credential being None; in any other mode it fails with a
\* RuntimeError naming the first unset credential and completes only if all
\* four are set.
C17_CredentialsByMode ==
    /\ TestModeEnv =>
          /\ cerr.type # "RuntimeError"
          /\ cpc = "failed" => cerr.var \in Range(FloatVars)
          /\ \A k \in 1..Len(CredVars) :
                /\ loaded[CredVars[k]] \in {NotBound, osenv[CredVars[k]]}
                /\ StatementIndex(CredVars[k]) < StatementIndex(
                       IF cpc \in {"loaded", "failed"} THEN "TARGET_PROFIT" ELSE cpc)
                     => loaded[CredVars[k]] = osenv[CredVars[k]]
    /\ ~TestModeEnv =>
          /\ \A k \in 1..Len(CredVars) :
                FirstUnset(k) =>
                    /\ cpc # "loaded"
                    /\ cpc = "failed" => cerr = [type |-> "RuntimeError",
                                                 var |-> CredVars[k]]
                    /\ \A j \in k..Len(CredVars) : loaded[CredVars[j]] = NotBound
                    /\ \A n \in Range(FloatVars) : loaded[n] = NotBound
          /\ cpc = "loaded" =>
                \A k \in 1..Len(CredVars) :
                    /\ ~CredUnset(k)
                    /\ loaded[CredVars[k]] = osenv[CredVars[k]]
          /\ cerr.type = "RuntimeError" => osenv[cerr.var] = None

C17_Witness ==
    /\ cpc = "failed"
    /\ osenv["MODE"] = "LIVE"
    /\ osenv["PRIVATE_KEY"] = "0xset"
    /\ osenv["PUBLIC_ADDRESS"] = ""
    /\ osenv["FLASHBOTS_ADDRESS"] = None
    /\ cerr = [type |-> "RuntimeError", var |-> "FLASHBOTS_KEY"]

---------------------------------------------------------------------------
===========================================================================
